---- MODULE Spec2Model ----
(***************************************************************************)
(* html_parser.c: the tokenizer (tokenize) and the tree builder            *)
(* (build_dom) with its node helpers (create_node, add_child).             *)
(*                                                                         *)
(* Strings are sequences of one-character strings.  C arrays are 0-based:  *)
(* At(s, k) is s[k] of the C code.  Nodes live in the sequence `nodes`;    *)
(* a Node* is the index of the node in it, in order of allocation, and     *)
(* the root made by build_dom is node 1.                                   *)
(***************************************************************************)
EXTENDS Integers, Sequences, FiniteSets, TLC

VARIABLES
    html,       \* tokenize: the input string
    pos,        \* tokenize: size_t pos
    buffer,     \* tokenize: buffer[0 .. buffer_pos-1], buffer_pos = Len(buffer)
    tpc,        \* tokenize: "idle", "scan", "done" or "ub"
    marks,      \* history: marks[k] is the value of pos where token k began
    hi,         \* history: the highest index of html read so far, -1 before any read
    tokens,     \* the token array, token_count = Len(tokens)
    token_capacity, \* the caller's capacity of the token array
    i,          \* build_dom: the loop index
    nodes,      \* the heap of Node structs
    stack,      \* build_dom: stack[0 .. stack_size-1], stack_size = Len(stack)
    origin,     \* history: origin[n] is i+1 for the token that created node n, 0 for the root
    pc,         \* build_dom: "idle", "run", "done", "crashed" or "ub"
    twin,       \* a second build_dom run, fed a second token array
    mpc,        \* main: "start", "printed" or "freed"
    out,        \* the lines print_tree has written
    freed       \* the nodes free_node has released, in order

vars == <<html, pos, buffer, tpc, marks, hi, tokens, token_capacity, i, nodes, stack,
          origin, pc, twin, mpc, out, freed>>

tokVars == <<html, pos, buffer, tpc, marks, hi, token_capacity>>
domVars == <<i, nodes, stack, origin, pc>>
mainVars == <<mpc, out, freed>>

(***************************************************************************)
(* Bounds of the model.                                                    *)
(***************************************************************************)
MaxLen == 5
MaxTokens == 5
MaxPairTokens == 4

(***************************************************************************)
(* Program constants.                                                      *)
(***************************************************************************)
BufferCapacity == 1024
TagNameCapacity == 256
StackCapacity == 128
InitialChildCapacity == 4
InitialTokenCapacity == 16

Chars == {"<", "/", ">", "a"}
Names == {<<"a">>, <<"b">>}
TokenType == {"StartTag", "EndTag", "Text"}
DocumentName == <<"d", "o", "c", "u", "m", "e", "n", "t">>

At(s, k) == s[k + 1]

SeqsUpTo(S, n) == UNION {[1..k -> S] : k \in 0..n}

Token(type, data) == [type |-> type, data |-> data]

(***************************************************************************)
(* Node helpers.                                                           *)
(***************************************************************************)
create_node(name, is_text) ==
    [name |-> name, children |-> <<>>,
     child_capacity |-> InitialChildCapacity, is_text |-> is_text]

\* add_child with the new child stored in front of the others
add_child_front(ns, parent, child) ==
    [ns EXCEPT ![parent].children = <<child>> \o @]

\* parent->children[parent->child_count++] = child, after doubling a full array
\* (realloc keeps the entries)
add_child(ns, parent, child) ==
    LET p == ns[parent]
        cap == IF Len(p.children) >= p.child_capacity
               THEN p.child_capacity * 2 ELSE p.child_capacity
    IN [ns EXCEPT ![parent] = [p EXCEPT !.child_capacity = cap,
                                        !.children = Append(p.children, child)]]

(***************************************************************************)
(* print_tree and free_node.  A line of output is [kind, node, depth]:     *)
(* "open" for <name>, "text" for Text: "name", "close" for </name>, each   *)
(* after `depth` indents.  free_node yields the nodes in the order of      *)
(* their free(node).                                                       *)
(***************************************************************************)
Line(kind, n, depth) == [kind |-> kind, node |-> n, depth |-> depth]

RECURSIVE print_tree(_, _, _)
RECURSIVE print_tree_closing_root(_, _, _)
RECURSIVE print_children(_, _, _, _)

\* lines 55-57: the children from the k-th on, in order
print_children(ns, n, k, depth) ==
    IF k > Len(ns[n].children) THEN <<>>
    ELSE print_tree(ns, ns[n].children[k], depth + 1)
             \o print_children(ns, n, k + 1, depth)

\* print_tree without the test depth > 0
print_tree_closing_root(ns, n, depth) ==
    <<Line(IF ns[n].is_text = 1 THEN "text" ELSE "open", n, depth)>>
        \o print_children(ns, n, 1, depth)
        \o (IF ns[n].is_text = 0 THEN <<Line("close", n, depth)>> ELSE <<>>)

print_tree(ns, n, depth) ==
    <<Line(IF ns[n].is_text = 1 THEN "text" ELSE "open", n, depth)>>
        \o print_children(ns, n, 1, depth)
        \o (IF ns[n].is_text = 0 /\ depth > 0 THEN <<Line("close", n, depth)>> ELSE <<>>)

RECURSIVE free_node(_, _)
RECURSIVE free_children(_, _, _)

\* lines 68-70: the children from the k-th on, in order
free_children(ns, n, k) ==
    IF k > Len(ns[n].children) THEN <<>>
    ELSE free_node(ns, ns[n].children[k]) \o free_children(ns, n, k + 1)

free_node(ns, n) == free_children(ns, n, 1) \o <<n>>

(***************************************************************************)
(* build_dom.  A run is [nodes, stack, pc].                                *)
(*                                                                         *)
(* With stack_size = 0 the expression stack[stack_size - 1] reads the      *)
(* word in front of the malloc'ed array.  What add_child then does with    *)
(* that word is chosen by `env`: it faults, or the word is the address of  *)
(* a node allocated earlier, or it is the address of writable memory that  *)
(* is no node, and the child is stored there and attached to no node.      *)
(***************************************************************************)
Env(n) ==
    {[kind |-> "fault", node |-> 0], [kind |-> "wild", node |-> 0]}
        \cup {[kind |-> "node", node |-> k] : k \in 1..n}

Run(ns, st, p) == [nodes |-> ns, stack |-> st, pc |-> p]

\* add_child(stack[stack_size - 1], child) for the node just allocated
attach(m, env) ==
    LET child == Len(m.nodes)
    IN IF Len(m.stack) > 0
       THEN [m EXCEPT !.nodes = add_child(m.nodes, m.stack[Len(m.stack)], child)]
       ELSE IF env.kind = "fault" THEN [m EXCEPT !.pc = "crashed"]
       ELSE IF env.kind = "node" /\ env.node < child
            THEN [m EXCEPT !.nodes = add_child(m.nodes, env.node, child)]
       ELSE m

\* stack[stack_size++] = node
push(m, node) ==
    IF m.pc # "run" THEN m
    ELSE IF Len(m.stack) >= StackCapacity THEN [m EXCEPT !.pc = "ub"]
    ELSE [m EXCEPT !.stack = Append(m.stack, node)]

\* the StartTag branch without the push
on_StartTag_nopush(m, tok, env) ==
    attach([m EXCEPT !.nodes = Append(m.nodes, create_node(tok.data, 0))], env)

on_StartTag(m, tok, env) ==
    LET created == [m EXCEPT !.nodes = Append(m.nodes, create_node(tok.data, 0))]
    IN push(attach(created, env), Len(created.nodes))

\* an EndTag branch that closes the open element only when the names match
on_EndTag_matching(m, tok) ==
    IF Len(m.stack) > 0 /\ m.nodes[m.stack[Len(m.stack)]].name = tok.data
    THEN [m EXCEPT !.stack = SubSeq(m.stack, 1, Len(m.stack) - 1)]
    ELSE m

\* an EndTag branch that also appends a node for the end tag
on_EndTag_node(m, tok) ==
    IF Len(m.stack) > 0
    THEN [m EXCEPT !.stack = SubSeq(m.stack, 1, Len(m.stack) - 1),
                   !.nodes = add_child(Append(m.nodes, create_node(tok.data, 0)),
                                       m.stack[Len(m.stack)], Len(m.nodes) + 1)]
    ELSE m

\* an EndTag branch that also empties the element it closes
on_EndTag_drop(m, tok) ==
    IF Len(m.stack) > 0
    THEN [m EXCEPT !.stack = SubSeq(m.stack, 1, Len(m.stack) - 1),
                   !.nodes[m.stack[Len(m.stack)]].children = <<>>]
    ELSE m

\* if (stack_size > 0) stack_size--;
on_EndTag(m, tok) ==
    IF Len(m.stack) > 0
    THEN [m EXCEPT !.stack = SubSeq(m.stack, 1, Len(m.stack) - 1)]
    ELSE m

\* a Text branch that also pushes the text node
on_Text_push(m, tok, env) ==
    LET created == [m EXCEPT !.nodes = Append(m.nodes, create_node(tok.data, 1))]
    IN push(attach(created, env), Len(created.nodes))

on_Text(m, tok, env) ==
    attach([m EXCEPT !.nodes = Append(m.nodes, create_node(tok.data, 1))], env)

(***************************************************************************)
(* tokenize.  The token array with its capacity and the text buffer are    *)
(* carried as [tokens, token_capacity, buffer].                            *)
(***************************************************************************)
Scan(ts, cap, buf) == [tokens |-> ts, token_capacity |-> cap, buffer |-> buf]

\* (*tokens)[*token_count] = tok; (*token_count)++, after doubling a full array
emit(t, tok) ==
    [t EXCEPT !.token_capacity = IF Len(t.tokens) >= @ THEN @ * 2 ELSE @,
              !.tokens = Append(@, tok)]

\* a flush that leaves the buffered text in place
flush_keep(t) ==
    IF Len(t.buffer) > 0 THEN emit(t, Token("Text", t.buffer)) ELSE t

\* a flush without the test for an empty buffer
flush_always(t) ==
    [emit(t, Token("Text", t.buffer)) EXCEPT !.buffer = <<>>]

\* lines 87-98: the buffered text becomes a Text token and the buffer is cleared
flush(t) ==
    IF Len(t.buffer) > 0
    THEN [emit(t, Token("Text", t.buffer)) EXCEPT !.buffer = <<>>]
    ELSE t

\* a final flush without the test for an empty buffer
flush_final_always(t) == emit(t, Token("Text", t.buffer))

\* lines 128-137: the flush after the loop
flush_final(t) ==
    IF Len(t.buffer) > 0 THEN emit(t, Token("Text", t.buffer)) ELSE t

is_end_tag(h, p) == p + 1 < Len(h) /\ At(h, p + 1) = "/"

\* the index the end-tag test reads when the bound is not tested first
is_end_tag_reads_unguarded(h, p) == {p + 1}

\* line 101: html[pos + 1] is read only when pos + 1 < strlen(html)
is_end_tag_reads(h, p) == IF p + 1 < Len(h) THEN {p + 1} ELSE {}

RECURSIVE ScanTagName_lt(_, _)
\* a name scan that also stops at '<'
ScanTagName_lt(h, p) ==
    IF p < Len(h) /\ At(h, p) # ">" /\ At(h, p) # "<"
    THEN <<At(h, p)>> \o ScanTagName_lt(h, p + 1)
    ELSE <<>>

RECURSIVE ScanTagName(_, _)
\* lines 107-109: the characters from p up to the first '>' or the end of html
ScanTagName(h, p) ==
    IF p < Len(h) /\ At(h, p) # ">"
    THEN <<At(h, p)>> \o ScanTagName(h, p + 1)
    ELSE <<>>

\* lines 148-157: the branch of the loop body that the token's type selects
process(m, tok, env) ==
    IF tok.type = "StartTag" THEN on_StartTag(m, tok, env)
    ELSE IF tok.type = "EndTag" THEN on_EndTag(m, tok)
    ELSE on_Text(m, tok, env)

\* lines 107-109: html[pos] is read for the name and for the '>' that ends
\* it, each time after pos < strlen(html)
ScanTagName_reads(h, p) == {q \in p..(p + Len(ScanTagName(h, p))) : q < Len(h)}

\* the highest of the index read so far and the indices in S
Highest(h0, S) == IF \A q \in S : q <= h0 THEN h0 ELSE CHOOSE q \in S : \A r \in S : r <= q

\* lines 142-145: the root is created and pushed
build_dom_entry == Run(<<create_node(DocumentName, 0)>>, <<1>>, "run")

IdleRun == Run(<<>>, <<>>, "idle")

\* main before it prints and frees the tree
MainInit == mpc = "start" /\ out = <<>> /\ freed = <<>>

TokInitIdle ==
    /\ html = <<>> /\ pos = 0 /\ buffer = <<>> /\ tpc = "idle" /\ marks = <<>>
    /\ hi = -1
    /\ token_capacity = InitialTokenCapacity
    /\ MainInit

Init ==
    /\ TokInitIdle
    /\ tokens \in SeqsUpTo({Token(t, d) : t \in TokenType, d \in Names}, MaxTokens)
    /\ i = 0
    /\ nodes = build_dom_entry.nodes
    /\ stack = build_dom_entry.stack
    /\ pc = build_dom_entry.pc
    /\ origin = <<0>>
    /\ twin = [tokens |-> <<>>, run |-> IdleRun]

Here == Run(nodes, stack, pc)

Commit(r) ==
    /\ nodes' = r.nodes
    /\ stack' = r.stack
    /\ pc' = r.pc
    /\ origin' = IF Len(r.nodes) > Len(nodes) THEN Append(origin, i + 1) ELSE origin
    /\ i' = i + 1

StartTagStep ==
    /\ pc = "run" /\ i < Len(tokens) /\ tokens[i + 1].type = "StartTag"
    /\ \E env \in Env(Len(nodes)) : Commit(on_StartTag(Here, tokens[i + 1], env))
    /\ UNCHANGED <<tokVars, tokens, twin, mainVars>>

EndTagStep ==
    /\ pc = "run" /\ i < Len(tokens) /\ tokens[i + 1].type = "EndTag"
    /\ Commit(on_EndTag(Here, tokens[i + 1]))
    /\ UNCHANGED <<tokVars, tokens, twin, mainVars>>

TextStep ==
    /\ pc = "run" /\ i < Len(tokens) /\ tokens[i + 1].type = "Text"
    /\ \E env \in Env(Len(nodes)) : Commit(on_Text(Here, tokens[i + 1], env))
    /\ UNCHANGED <<tokVars, tokens, twin, mainVars>>

\* the loop ends: free(stack); return root;
Return ==
    /\ pc = "run" /\ i = Len(tokens)
    /\ pc' = "done"
    /\ UNCHANGED <<tokVars, tokens, i, nodes, stack, origin, twin, mainVars>>

\* main line 187: print_tree(dom, 0)
PrintStep ==
    /\ pc = "done" /\ mpc = "start"
    /\ out' = print_tree(nodes, 1, 0)
    /\ mpc' = "printed"
    /\ UNCHANGED <<tokVars, tokens, domVars, twin, freed>>

\* main line 194: free_node(dom)
FreeStep ==
    /\ pc = "done" /\ mpc = "printed"
    /\ freed' = free_node(nodes, 1)
    /\ mpc' = "freed"
    /\ UNCHANGED <<tokVars, tokens, domVars, twin, out>>

Next == StartTagStep \/ EndTagStep \/ TextStep \/ Return \/ PrintStep \/ FreeStep

Spec == Init /\ [][Next]_vars

(***************************************************************************)
(* tokenize as a state machine: one step per iteration of the outer loop.  *)
(***************************************************************************)
DomInitIdle ==
    /\ i = 0 /\ nodes = <<>> /\ stack = <<>> /\ origin = <<>> /\ pc = "idle"
    /\ twin = [tokens |-> <<>>, run |-> IdleRun]

TokInit ==
    /\ html \in SeqsUpTo(Chars, MaxLen)
    /\ pos = 0
    /\ buffer = <<>>
    /\ tpc = "scan"
    /\ marks = <<>>
    /\ hi = -1
    /\ tokens = <<>>
    /\ token_capacity = InitialTokenCapacity
    /\ DomInitIdle
    /\ MainInit

ScanHere == Scan(tokens, token_capacity, buffer)

ScanCommit(t) ==
    /\ tokens' = t.tokens
    /\ token_capacity' = t.token_capacity
    /\ buffer' = t.buffer

\* lines 85-119: c == '<'
TagOpen ==
    /\ tpc = "scan" /\ pos < Len(html) /\ At(html, pos) = "<"
    /\ LET f == flush(ScanHere)
           e == is_end_tag(html, pos)
           p == pos + (IF e THEN 2 ELSE 1)
           tag_name == ScanTagName(html, p)
           flushed == Len(f.tokens) > Len(tokens)
       IN IF Len(buffer) >= BufferCapacity \/ Len(tag_name) >= TagNameCapacity
          THEN tpc' = "ub" /\ UNCHANGED <<pos, buffer, marks, hi, tokens, token_capacity>>
          ELSE /\ ScanCommit(emit(f, Token(IF e THEN "EndTag" ELSE "StartTag", tag_name)))
               /\ hi' = Highest(hi, {pos} \cup is_end_tag_reads(html, pos)
                                         \cup ScanTagName_reads(html, p))
               /\ pos' = p + Len(tag_name) + 1
               /\ marks' = (IF flushed THEN Append(marks, pos - Len(buffer)) ELSE marks)
                               \o <<pos>>
               /\ tpc' = tpc
    /\ UNCHANGED <<html, domVars, twin, mainVars>>

\* the text branch without pos++
TextChar_stuck ==
    /\ tpc = "scan" /\ pos < Len(html) /\ At(html, pos) # "<"
    /\ buffer' = Append(buffer, At(html, pos))
    /\ hi' = Highest(hi, {pos})
    /\ UNCHANGED <<html, pos, tpc, marks, tokens, token_capacity, domVars, twin, mainVars>>

\* lines 120-124: any other character
TextChar ==
    /\ tpc = "scan" /\ pos < Len(html) /\ At(html, pos) # "<"
    /\ IF Len(buffer) >= BufferCapacity
       THEN tpc' = "ub" /\ UNCHANGED <<pos, buffer, hi>>
       ELSE /\ buffer' = Append(buffer, At(html, pos)) /\ pos' = pos + 1 /\ tpc' = tpc
            /\ hi' = Highest(hi, {pos})
    /\ UNCHANGED <<html, marks, tokens, token_capacity, domVars, twin, mainVars>>

\* lines 127-138: the loop ends
ScanEnd ==
    /\ tpc = "scan" /\ pos >= Len(html)
    /\ LET f == flush_final(ScanHere)
       IN IF Len(buffer) >= BufferCapacity
          THEN tpc' = "ub" /\ UNCHANGED <<buffer, marks, tokens, token_capacity>>
          ELSE /\ ScanCommit(f)
               /\ marks' = IF Len(f.tokens) > Len(tokens)
                           THEN Append(marks, pos - Len(buffer)) ELSE marks
               /\ tpc' = "done"
    /\ UNCHANGED <<html, pos, hi, domVars, twin, mainVars>>

TokNext == TagOpen \/ TextChar \/ ScanEnd

SpecTok == TokInit /\ [][TokNext]_vars

(***************************************************************************)
(* Two runs of build_dom in lockstep, on token arrays that agree except    *)
(* in the names of their EndTag tokens, in the same environment.           *)
(***************************************************************************)
SameButEndNames(a, b) ==
    /\ Len(a) = Len(b)
    /\ \A k \in 1..Len(a) :
          /\ a[k].type = b[k].type
          /\ a[k].type # "EndTag" => a[k].data = b[k].data

PairInit ==
    /\ TokInitIdle
    /\ tokens \in SeqsUpTo({Token(t, d) : t \in TokenType, d \in Names}, MaxPairTokens)
    /\ i = 0
    /\ nodes = build_dom_entry.nodes
    /\ stack = build_dom_entry.stack
    /\ pc = build_dom_entry.pc
    /\ origin = <<0>>
    /\ \E other \in [1..Len(tokens) -> {Token(t, d) : t \in TokenType, d \in Names}] :
          /\ SameButEndNames(tokens, other)
          /\ twin = [tokens |-> other, run |-> build_dom_entry]

PairStartTag ==
    /\ pc = "run" /\ twin.run.pc = "run"
    /\ i < Len(tokens) /\ tokens[i + 1].type = "StartTag"
    /\ \E env \in Env(Len(nodes)) :
          /\ Commit(on_StartTag(Here, tokens[i + 1], env))
          /\ twin' = [twin EXCEPT !.run = on_StartTag(@, twin.tokens[i + 1], env)]
    /\ UNCHANGED <<tokVars, tokens, mainVars>>

PairEndTag ==
    /\ pc = "run" /\ twin.run.pc = "run"
    /\ i < Len(tokens) /\ tokens[i + 1].type = "EndTag"
    /\ Commit(on_EndTag(Here, tokens[i + 1]))
    /\ twin' = [twin EXCEPT !.run = on_EndTag(@, twin.tokens[i + 1])]
    /\ UNCHANGED <<tokVars, tokens, mainVars>>

PairText ==
    /\ pc = "run" /\ twin.run.pc = "run"
    /\ i < Len(tokens) /\ tokens[i + 1].type = "Text"
    /\ \E env \in Env(Len(nodes)) :
          /\ Commit(on_Text(Here, tokens[i + 1], env))
          /\ twin' = [twin EXCEPT !.run = on_Text(@, twin.tokens[i + 1], env)]
    /\ UNCHANGED <<tokVars, tokens, mainVars>>

PairReturn ==
    /\ pc = "run" /\ twin.run.pc = "run" /\ i = Len(tokens)
    /\ pc' = "done"
    /\ twin' = [twin EXCEPT !.run.pc = "done"]
    /\ UNCHANGED <<tokVars, tokens, i, nodes, stack, origin, mainVars>>

PairNext == PairStartTag \/ PairEndTag \/ PairText \/ PairReturn

SpecPair == PairInit /\ [][PairNext]_vars

(***************************************************************************)
(* What the claims speak of, stated on the token array alone.              *)
(***************************************************************************)
Max(S) == CHOOSE x \in S : \A y \in S : y <= x

Count(type, a, b) == Cardinality({k \in a..b : tokens[k].type = type})

\* no prefix of the first n tokens has more EndTag than StartTag tokens
PrefixOK(n) == \A k \in 1..n : Count("EndTag", 1, k) <= Count("StartTag", 1, k)

\* token j is a StartTag that no EndTag among tokens j+1 .. k-1 has closed
StillOpen(j, k) ==
    /\ tokens[j].type = "StartTag"
    /\ \A m \in (j + 1)..(k - 1) :
          Count("EndTag", j + 1, m) <= Count("StartTag", j + 1, m)

\* the nearest StartTag before token k that is still open there, 0 if none
Opener(k) ==
    LET open == {j \in 1..(k - 1) : StillOpen(j, k)}
    IN IF open = {} THEN 0 ELSE Max(open)

\* the number of open elements, the root included, after n tokens, when an
\* EndTag met with the root alone is absorbed
RECURSIVE Depth(_)
Depth(n) ==
    IF n = 0 THEN 1
    ELSE IF tokens[n].type = "StartTag" THEN Depth(n - 1) + 1
    ELSE IF tokens[n].type = "EndTag"
         THEN (IF Depth(n - 1) > 1 THEN Depth(n - 1) - 1 ELSE 1)
    ELSE Depth(n - 1)

NodeIds == 1..Len(nodes)

\* the node that token k created
NodeOf(k) == CHOOSE n \in NodeIds : origin[n] = k

Children(n) == {nodes[n].children[k] : k \in 1..Len(nodes[n].children)}

Parents(n) == {p \in NodeIds : n \in Children(p)}

\* how often n is stored in the children arrays
Occurrences(n) ==
    Cardinality({pk \in NodeIds \X (1..Len(nodes)) :
                    /\ pk[2] <= Len(nodes[pk[1]].children)
                    /\ nodes[pk[1]].children[pk[2]] = n})

RECURSIVE Below(_)
\* S with all descendants of its members
Below(S) ==
    LET more == S \cup UNION {Children(n) : n \in S}
    IN IF more = S THEN S ELSE Below(more)

\* C1: while build_dom processes tokens, and when it returns, the stack of
\* open elements is not empty and its bottom entry is the root.
C1_StackHoldsRoot ==
    pc \in {"run", "done"} => (Len(stack) > 0 /\ stack[1] = 1)

\* C2: an EndTag met while the root alone is open leaves the stack as it is,
\* and a StartTag or Text token met while the root alone should be open
\* becomes the last child of the root.
C2_SurplusEndTagAbsorbed ==
    [][(pc = "run" /\ i < Len(tokens)) =>
         /\ (tokens[i + 1].type = "EndTag" /\ stack = <<1>>) => stack' = stack
         /\ (tokens[i + 1].type # "EndTag" /\ Depth(i) = 1) =>
               /\ Len(nodes') = Len(nodes) + 1
               /\ Len(nodes'[1].children) > 0
               /\ nodes'[1].children[Len(nodes'[1].children)] = Len(nodes')]_vars

\* C3: when no prefix of the token array has more EndTag than StartTag
\* tokens, every node but the root has one parent, the node of the nearest
\* StartTag still open at its token, or the root if there is none; and the
\* top of the stack is the node of the nearest StartTag still open at the
\* next token.
C3_ChildOfNearestOpen ==
    (pc \in {"run", "done"} /\ PrefixOK(Len(tokens))) =>
        /\ \A n \in NodeIds \ {1} : Parents(n) = {NodeOf(Opener(origin[n]))}
        /\ Len(stack) > 0
        /\ stack[Len(stack)] = NodeOf(Opener(i + 1))

\* a text node was attached to an element opened three or more tokens
\* earlier, after an inner element had been closed
C3_Witness ==
    /\ pc = "done" /\ PrefixOK(Len(tokens))
    /\ \E n \in NodeIds \ {1} :
          /\ nodes[n].is_text = 1
          /\ Opener(origin[n]) > 0
          /\ Opener(origin[n]) + 2 < origin[n]
          /\ Parents(n) = {NodeOf(Opener(origin[n]))}

\* C7: two token arrays that differ only in the names of their EndTag tokens
\* yield the same nodes with the same children, step by step and at return.
C7_EndTagNameIgnored ==
    /\ twin.run.pc = pc
    /\ pc \in {"run", "done"} => (twin.run.nodes = nodes /\ twin.run.stack = stack)

\* both runs returned, an EndTag carried two different names, and a node was
\* created after it
C7_Witness ==
    /\ pc = "done" /\ twin.run.pc = "done"
    /\ \E k \in 1..Len(tokens) :
          /\ tokens[k].type = "EndTag"
          /\ tokens[k].data # twin.tokens[k].data
          /\ \E n \in NodeIds : origin[n] > k /\ Parents(n) # {}

\* C8: in every children array the child created by the earlier token comes
\* first.
C8_ChildrenInDocumentOrder ==
    \A p \in NodeIds :
        \A a, b \in 1..Len(nodes[p].children) :
            a < b => origin[nodes[p].children[a]] < origin[nodes[p].children[b]]

\* a children array was grown and holds five children
C8_Witness ==
    /\ pc = "done"
    /\ \E p \in NodeIds :
          /\ nodes[p].child_capacity > InitialChildCapacity
          /\ Len(nodes[p].children) > InitialChildCapacity

\* C9: every entry of the stack is an element, every text node is childless,
\* and a Text token leaves the stack alone and appends its node to the
\* children of the top of the stack.
C9_TextNodesAreLeaves ==
    [][/\ \A k \in 1..Len(stack') : nodes'[stack'[k]].is_text = 0
       /\ \A n \in 1..Len(nodes') : nodes'[n].is_text = 1 => nodes'[n].children = <<>>
       /\ (pc = "run" /\ i < Len(tokens) /\ tokens[i + 1].type = "Text") =>
             /\ stack' = stack
             /\ Len(stack) > 0
             /\ nodes'[stack[Len(stack)]].children
                    = Append(nodes[stack[Len(stack)]].children, Len(nodes'))]_vars

\* C10: when build_dom returns, every node but the root is stored once in
\* one children array, no node is below itself, and every node is below
\* the root.
C10_NodesFormATree ==
    pc = "done" =>
        /\ \A n \in NodeIds \ {1} : Occurrences(n) = 1
        /\ Occurrences(1) = 0
        /\ \A n \in NodeIds : n \notin Below(Children(n))
        /\ Below({1}) = NodeIds

(***************************************************************************)
(* What the tokenizer's claims speak of, stated on html and the marks.     *)
(***************************************************************************)
Min(S) == CHOOSE x \in S : \A y \in S : x <= y

IsTag(k) == tokens[k].type \in {"StartTag", "EndTag"}

\* where the name of tag token k begins
NameStart(k) == marks[k] + (IF tokens[k].type = "EndTag" THEN 2 ELSE 1)

\* the place of the first '>' at or after p, Len(html) if there is none
FirstGt(p) ==
    LET gts == {q \in p..(Len(html) - 1) : At(html, q) = ">"}
    IN IF gts = {} THEN Len(html) ELSE Min(gts)

\* the place after the '>' of tag token k, as its type and name give it
TagEnd(k) == NameStart(k) + Len(tokens[k].data) + 1

\* where the text not yet emitted began
Resume == pos - Len(buffer)

\* C4: text is emitted before the tag that follows it and the buffer holds
\* only the text since the last tag: no two Text tokens are neighbours, and
\* a Text token carries the characters from the end of the tag before it
\* (or the start of html) up to the next '<' (or the end of html), which
\* the next token begins with.
C4_TextFlushedAtTag ==
    /\ \A k \in 1..Len(tokens) :
          tokens[k].type = "Text" =>
             LET s == marks[k]
                 d == tokens[k].data
                 e == s + Len(d)
             IN /\ k > 1 => IsTag(k - 1) /\ TagEnd(k - 1) = s
                /\ k = 1 => s = 0
                /\ d = SubSeq(html, s + 1, e)
                /\ \A c \in 1..Len(d) : d[c] # "<"
                /\ e <= Len(html)
                /\ e < Len(html) =>
                      /\ At(html, e) = "<"
                      /\ k < Len(tokens) /\ IsTag(k + 1) /\ marks[k + 1] = e
                /\ e = Len(html) => k = Len(tokens)
    /\ (tpc = "scan" /\ pos <= Len(html)) =>
          /\ buffer = SubSeq(html, Resume + 1, pos)
          /\ \A c \in 1..Len(buffer) : buffer[c] # "<"
          /\ tokens # <<>> => IsTag(Len(tokens)) /\ TagEnd(Len(tokens)) = Resume
          /\ tokens = <<>> => Resume = 0

\* a Text token of two or more characters stands between two tag tokens
C4_Witness ==
    /\ tpc = "done"
    /\ \E k \in 2..(Len(tokens) - 1) :
          /\ tokens[k].type = "Text" /\ Len(tokens[k].data) > 1
          /\ IsTag(k - 1) /\ IsTag(k + 1)

\* C5: no Text token is empty, and two tags with nothing between them are
\* neighbours in the token array.
C5_NoEmptyText ==
    /\ \A k \in 1..Len(tokens) : tokens[k].type = "Text" => Len(tokens[k].data) > 0
    /\ \A k, j \in 1..Len(tokens) :
          (k < j /\ IsTag(k) /\ IsTag(j) /\ TagEnd(k) = marks[j]) => j = k + 1

\* the scan ended and two tag tokens came from tags with nothing between them
C5_Witness ==
    /\ tpc = "done"
    /\ \E k \in 1..(Len(tokens) - 1) :
          IsTag(k) /\ IsTag(k + 1) /\ TagEnd(k) = marks[k + 1]

\* C6: a tag token begins at a '<'; it is an EndTag exactly when a '/'
\* follows that '<'; its name is the characters from there up to the first
\* '>' (or the end of html); the scan goes on right after that '>'; and
\* every '<' scanned so far either begins a tag token or lies in a tag name.
C6_TagKindAndName ==
    /\ \A k \in 1..Len(tokens) :
          IsTag(k) =>
             LET m == marks[k]
                 p == NameStart(k)
             IN /\ m < Len(html) /\ At(html, m) = "<"
                /\ tokens[k].type = "EndTag"
                      <=> (m + 1 < Len(html) /\ At(html, m + 1) = "/")
                /\ tokens[k].data = SubSeq(html, p + 1, FirstGt(p))
                /\ \A c \in 1..Len(tokens[k].data) : tokens[k].data[c] # ">"
                /\ k < Len(tokens) => marks[k + 1] = FirstGt(p) + 1
                /\ (k = Len(tokens) /\ tpc = "scan") => Resume = FirstGt(p) + 1
    /\ tpc \in {"scan", "done"} =>
          \A q \in 0..(Len(html) - 1) :
              (q < pos /\ At(html, q) = "<") =>
                  \E k \in 1..Len(tokens) :
                      IsTag(k) /\ marks[k] <= q /\ q < TagEnd(k)

\* the scan ended and an EndTag token has a '<' in its name
C6_Witness ==
    /\ tpc = "done"
    /\ \E k \in 1..Len(tokens) :
          /\ tokens[k].type = "EndTag"
          /\ \E c \in 1..Len(tokens[k].data) : tokens[k].data[c] = "<"

(***************************************************************************)
(* build_dom on a token array that ends with the EndTag tokens its own     *)
(* beginning leaves missing, beside a run on that beginning alone          *)
(* (twin.tokens), in the same environment.                                 *)
(***************************************************************************)
TailInit ==
    /\ TokInitIdle
    /\ tokens \in SeqsUpTo({Token(t, d) : t \in TokenType, d \in Names}, MaxTokens)
    /\ i = 0
    /\ nodes = build_dom_entry.nodes
    /\ stack = build_dom_entry.stack
    /\ pc = build_dom_entry.pc
    /\ origin = <<0>>
    /\ \E n \in 0..(Len(tokens) - 1) :
          /\ \A k \in (n + 1)..Len(tokens) : tokens[k].type = "EndTag"
          /\ Len(tokens) - n = Depth(n) - 1
          /\ twin = [tokens |-> SubSeq(tokens, 1, n), run |-> build_dom_entry]

\* a token of the common beginning, processed by both runs
TailCommon ==
    /\ pc = "run" /\ twin.run.pc = "run" /\ i < Len(twin.tokens)
    /\ \E env \in Env(Len(nodes)) :
          /\ Commit(process(Here, tokens[i + 1], env))
          /\ twin' = [twin EXCEPT !.run = process(@, twin.tokens[i + 1], env)]
    /\ UNCHANGED <<tokVars, tokens, mainVars>>

\* the run on the beginning alone returns
TailTwinReturn ==
    /\ twin.run.pc = "run" /\ i = Len(twin.tokens)
    /\ twin' = [twin EXCEPT !.run.pc = "done"]
    /\ UNCHANGED <<tokVars, tokens, domVars, mainVars>>

\* an appended EndTag
TailEndTag ==
    /\ pc = "run" /\ twin.run.pc = "done" /\ i < Len(tokens)
    /\ \E env \in Env(Len(nodes)) : Commit(process(Here, tokens[i + 1], env))
    /\ UNCHANGED <<tokVars, tokens, twin, mainVars>>

TailReturn ==
    /\ pc = "run" /\ twin.run.pc = "done" /\ i = Len(tokens)
    /\ pc' = "done"
    /\ UNCHANGED <<tokVars, tokens, i, nodes, stack, origin, twin, mainVars>>

TailNext == TailCommon \/ TailTwinReturn \/ TailEndTag \/ TailReturn

SpecTail == TailInit /\ [][TailNext]_vars

\* C11: a step on an EndTag token leaves every node as it was, and the tree
\* returned for a token array with its missing EndTag tokens appended is
\* the tree returned for the array without them.
C11_EndTagKeepsTree ==
    [][/\ (pc = "run" /\ i < Len(tokens) /\ tokens[i + 1].type = "EndTag")
             => nodes' = nodes
       /\ (pc' = "done" /\ twin'.run.pc = "done") => nodes' = twin'.run.nodes]_vars

\* both runs returned; two elements were left open, one holding a child, and
\* two EndTag tokens were appended
C11_Witness ==
    /\ pc = "done" /\ twin.run.pc = "done"
    /\ Len(tokens) = Len(twin.tokens) + 2
    /\ Len(twin.run.stack) = 3
    /\ stack = <<1>>
    /\ nodes[twin.run.stack[3]].children # <<>>
    /\ nodes = twin.run.nodes

\* C12: at every point of the scan there are no more tokens than characters
\* consumed and no more than characters in html, and the empty html yields
\* no token.
C12_AtMostOneTokenPerChar ==
    /\ Len(tokens) <= Len(html)
    /\ Len(tokens) <= pos
    /\ (tpc = "done" /\ html = <<>>) => tokens = <<>>

\* the scan ended with as many tokens as html has characters: a Text token
\* of one character and the token of a '<' that ends html
C12_Witness ==
    /\ tpc = "done"
    /\ Len(html) = 2
    /\ Len(tokens) = Len(html)
    /\ tokens[1].type = "Text" /\ tokens[2].type = "StartTag"

\* the tokens among the first n that create a node
Creators(n) == {k \in 1..n : tokens[k].type \in {"StartTag", "Text"}}

\* C13: besides the root there is one node for each StartTag and each Text
\* token processed, of that token's kind and name, none for an EndTag
\* token, and so no more nodes than tokens.
C13_OneNodePerToken ==
    pc \in {"run", "done"} =>
        /\ Len(nodes) - 1 = Cardinality(Creators(i))
        /\ Len(nodes) - 1 <= Len(tokens)
        /\ \A k \in Creators(i) :
              /\ Cardinality({n \in NodeIds : origin[n] = k}) = 1
              /\ nodes[NodeOf(k)].name = tokens[k].data
              /\ nodes[NodeOf(k)].is_text = (IF tokens[k].type = "Text" THEN 1 ELSE 0)
        /\ \A n \in NodeIds \ {1} : origin[n] \in Creators(i)

\* build_dom returned after tokens of all three types, with fewer nodes
\* than tokens
C13_Witness ==
    /\ pc = "done"
    /\ {tokens[k].type : k \in 1..Len(tokens)} = TokenType
    /\ Len(nodes) - 1 < Len(tokens)
    /\ Len(nodes) > 3

(***************************************************************************)
(* main: tokenize, then build_dom on its tokens, then print_tree and       *)
(* free_node.  The program is sequential and keeps running until main      *)
(* returns or a fault stops it.                                            *)
(***************************************************************************)
\* main line 183: build_dom(tokens, token_count)
CallBuild ==
    /\ tpc = "done" /\ pc = "idle"
    /\ i' = 0
    /\ nodes' = build_dom_entry.nodes
    /\ stack' = build_dom_entry.stack
    /\ pc' = build_dom_entry.pc
    /\ origin' = <<0>>
    /\ UNCHANGED <<tokVars, tokens, twin, mainVars>>

MainNext == TokNext \/ CallBuild \/ Next

SpecMain == TokInit /\ [][MainNext]_vars /\ WF_vars(MainNext)

\* C14: tokenize ends and build_dom ends (it returns, or it faults on the
\* read of stack[-1]); every iteration of the scan moves pos forward; every
\* iteration of build_dom's loop moves i forward by one, and build_dom
\* returns with i = token_count.
C14_Terminates ==
    /\ <>(tpc = "done" /\ pc \in {"done", "crashed"})
    /\ [][(tpc = "scan" /\ pos < Len(html)) => pos' > pos]_vars
    /\ [][(pc = "run" /\ i < Len(tokens)) => i' = i + 1]_vars
    /\ [](pc = "done" => i = Len(tokens))

\* both ended on an html of four or more characters whose last tag has no '>'
C14_Witness ==
    /\ tpc = "done" /\ pc = "done"
    /\ Len(html) > 3
    /\ Len(tokens) > 1
    /\ IsTag(Len(tokens))
    /\ TagEnd(Len(tokens)) > Len(html)
    /\ pos = Len(html) + 1

\* how often free_node released node n
TimesFreed(n) == Cardinality({k \in 1..Len(freed) : freed[k] = n})

\* C15: after free_node(root) every node build_dom created has been
\* released once.
C15_EveryNodeFreedOnce ==
    mpc = "freed" => \A n \in NodeIds : TimesFreed(n) = 1

\* the lines of the given kind that print_tree wrote for node n
LinesOf(n, kind) == {k \in 1..Len(out) : out[k].node = n /\ out[k].kind = kind}

\* the lines written for the nodes in S
LinesIn(S) == {k \in 1..Len(out) : out[k].node \in S}

\* out is a pre-order walk of the tree below the root: every node's first
\* line is an opening marker for an element and the one line of a text node,
\* at the depth of the node; the lines of a node's children and of all below
\* them follow it child by child, in order; a closing marker ends the lines
\* of every element other than the root, and of the root when rootCloses
Printed(rootCloses) ==
    LET R == Below({1})
        Closes(n) == nodes[n].is_text = 0 /\ (n # 1 \/ rootCloses)
        span == [n \in R |-> LinesIn(Below({n}))]
        first == [n \in R |-> Min(span[n])]
        last == [n \in R |-> Max(span[n])]
        First(n) == first[n]
        Last(n) == last[n]
    IN /\ \A k \in 1..Len(out) : out[k].node \in R
       /\ \A n \in R :
             /\ Cardinality(LinesOf(n, "open")) = (IF nodes[n].is_text = 0 THEN 1 ELSE 0)
             /\ Cardinality(LinesOf(n, "text")) = (IF nodes[n].is_text = 1 THEN 1 ELSE 0)
             /\ Cardinality(LinesOf(n, "close")) = (IF Closes(n) THEN 1 ELSE 0)
             /\ out[First(n)].node = n /\ out[First(n)].kind # "close"
             /\ Closes(n) => (out[Last(n)].node = n /\ out[Last(n)].kind = "close"
                               /\ out[Last(n)].depth = out[First(n)].depth)
             /\ \A j \in 1..Len(nodes[n].children) :
                   LET c == nodes[n].children[j]
                   IN /\ out[First(c)].depth = out[First(n)].depth + 1
                      /\ First(c) = (IF j = 1 THEN First(n)
                                     ELSE Last(nodes[n].children[j - 1])) + 1
       /\ out[1].node = 1 /\ out[1].depth = 0

\* C16 as stated: print_tree leaves the nodes as they are and writes a
\* pre-order walk in which every element, the root included, has its
\* closing marker.
C16_EveryElementCloses ==
    /\ [][(mpc = "start" /\ mpc' = "printed") => nodes' = nodes]_vars
    /\ [](mpc # "start" => Printed(TRUE))

\* C16 as amended: the same, but the root, printed at depth 0, gets no
\* closing marker.
C16_EveryElementButRootCloses ==
    /\ [][(mpc = "start" /\ mpc' = "printed") => nodes' = nodes]_vars
    /\ [](mpc # "start" => Printed(FALSE))

\* a tree with a text node two levels below the root was printed
C16_Witness ==
    /\ mpc = "printed"
    /\ LinesOf(1, "open") = {1} /\ LinesOf(1, "close") = {}
    /\ \E k \in 1..Len(out) : out[k].kind = "text" /\ out[k].depth = 2
    /\ \E k \in 1..Len(out) : out[k].kind = "close" /\ out[k].depth = 1

(***************************************************************************)
(* tokenize and build_dom on inputs that reach the capacities of the text  *)
(* buffer and of the stack of open elements.                               *)
(***************************************************************************)
DeepMargin == 1

Rep(x, n) == [k \in 1..n |-> x]

Around(capacity) == (capacity - DeepMargin - 1)..(capacity + DeepMargin)

DeepInit ==
    \/ /\ html \in {Rep("a", n) : n \in Around(BufferCapacity)}
       /\ pos = 0
       /\ buffer = <<>>
       /\ tpc = "scan"
       /\ marks = <<>>
       /\ hi = -1
       /\ tokens = <<>>
       /\ token_capacity = InitialTokenCapacity
       /\ DomInitIdle
       /\ MainInit
    \/ /\ TokInitIdle
       /\ tokens \in {Rep(Token("StartTag", <<"a">>), n) : n \in Around(StackCapacity)}
       /\ i = 0
       /\ nodes = build_dom_entry.nodes
       /\ stack = build_dom_entry.stack
       /\ pc = build_dom_entry.pc
       /\ origin = <<0>>
       /\ twin = [tokens |-> <<>>, run |-> IdleRun]

DeepNext == TextChar \/ ScanEnd \/ StartTagStep \/ Return

SpecDeep == DeepInit /\ [][DeepNext]_vars

\* C17: every write to buffer, to tag_name and to stack is at an index
\* below the capacity of the array: buffer[buffer_pos] for a character and
\* for the NUL of a flush, tag_name[tag_pos] up to the NUL after the name,
\* stack[stack_size] for a StartTag.
C17_WritesWithinCapacity ==
    [][/\ (tpc = "scan" /\ pos < Len(html) /\ At(html, pos) # "<")
             => Len(buffer) < BufferCapacity
       /\ (tpc = "scan" /\ Len(buffer) > 0
             /\ (pos >= Len(html) \/ At(html, pos) = "<"))
             => Len(buffer) < BufferCapacity
       /\ (tpc = "scan" /\ pos < Len(html) /\ At(html, pos) = "<")
             => Len(ScanTagName(html, pos + (IF is_end_tag(html, pos) THEN 2 ELSE 1)))
                    < TagNameCapacity
       /\ (pc = "run" /\ i < Len(tokens) /\ tokens[i + 1].type = "StartTag")
             => Len(stack) < StackCapacity]_vars

\* the place of the first '<' at or after p, Len(html) if there is none
FirstLt(p) ==
    LET lts == {q \in p..(Len(html) - 1) : At(html, q) = "<"}
    IN IF lts = {} THEN Len(html) ELSE Min(lts)

\* the place of the '<' of the tag, at or after p, that no '>' ends;
\* -1 if every tag from p on is ended
RECURSIVE Unended(_)
Unended(p) ==
    LET l == FirstLt(p)
    IN IF l = Len(html) THEN -1
       ELSE IF FirstGt(l) = Len(html) THEN l
       ELSE Unended(FirstGt(l) + 1)

\* a token written back as text
Written(tok) ==
    IF tok.type = "Text" THEN tok.data
    ELSE IF tok.type = "StartTag" THEN <<"<">> \o tok.data \o <<">">>
    ELSE <<"<", "/">> \o tok.data \o <<">">>

\* the tokens from the k-th on, written back
RECURSIVE WrittenFrom(_)
WrittenFrom(k) ==
    IF k > Len(tokens) THEN <<>> ELSE Written(tokens[k]) \o WrittenFrom(k + 1)

\* C18: when every tag of html is ended by a '>', the tokens written back
\* one after the other give html.
C18_Lossless ==
    (tpc = "done" /\ Unended(0) = -1) => WrittenFrom(1) = html

\* the scan of an html with all tags ended yielded a Text token and an
\* EndTag token
C18_Witness ==
    /\ tpc = "done" /\ Unended(0) = -1
    /\ \E k \in 1..Len(tokens) : tokens[k].type = "Text"
    /\ \E k \in 1..Len(tokens) : tokens[k].type = "EndTag"
    /\ WrittenFrom(1) = html

\* C19: when no prefix of the token array has more EndTag than StartTag
\* tokens, the stack starts at the root, every entry above it is the last
\* child of the entry below it, and the stack holds one entry more than
\* the StartTag tokens processed less the EndTag tokens processed.
C19_StackIsPathToInsertionPoint ==
    (pc \in {"run", "done"} /\ PrefixOK(Len(tokens))) =>
        /\ Len(stack) = 1 + Count("StartTag", 1, i) - Count("EndTag", 1, i)
        /\ stack[1] = 1
        /\ \A k \in 2..Len(stack) :
              LET below == nodes[stack[k - 1]].children
              IN Len(below) > 0 /\ below[Len(below)] = stack[k]

\* three elements are open, the middle one with a child before the innermost one,
\* after an EndTag
C19_Witness ==
    /\ pc = "run" /\ PrefixOK(Len(tokens))
    /\ Len(stack) = 3
    /\ Len(nodes[stack[2]].children) > 1
    /\ Count("EndTag", 1, i) > 0

\* C20: no character of html is read at an index at or past its length;
\* and when html ends inside a tag, the scan ends with pos past the end and
\* with a last token that began at that tag's '<', is an EndTag exactly
\* when a '/' follows the '<', and is named by all the characters after
\* the '<' (after the "</").
C20_UnendedTagIsLastToken ==
    /\ hi < Len(html)
    /\ (tpc = "done" /\ Unended(0) # -1) =>
          LET u == Unended(0)
              e == u + 1 < Len(html) /\ At(html, u + 1) = "/"
              from == u + (IF e THEN 2 ELSE 1)
          IN /\ Len(tokens) > 0
             /\ marks[Len(tokens)] = u
             /\ tokens[Len(tokens)].type = (IF e THEN "EndTag" ELSE "StartTag")
             /\ tokens[Len(tokens)].data = SubSeq(html, from + 1, Len(html))
             /\ pos = Len(html) + 1

\* the scan ended on an html of two or more characters whose last character
\* is a '<' that begins a tag, and that character was read
C20_Witness ==
    /\ tpc = "done"
    /\ Len(html) > 1
    /\ Unended(0) = Len(html) - 1
    /\ hi = Len(html) - 1
    /\ tokens[Len(tokens)] = Token("StartTag", <<>>)

====
